---- MODULE Spec2Model ----
(***************************************************************************)
(* Gomoku engine of alphazero-gomoku (src/game.py): Board, GomokuGame and  *)
(* the Arena match loop.                                                   *)
(*                                                                         *)
(* A board is a function [0..n-1 -> [0..n-1 -> {-1, 0, 1}]], read as       *)
(* board[x][y] like the nested lists / numpy array of the source.  Vectors *)
(* (validity vector, policy vector) are functions on 0..n*n-1.             *)
(***************************************************************************)
EXTENDS Integers, Sequences, FiniteSets, TLC

VARIABLES
    n,          \* GomokuGame.n, the board size
    stride,     \* parameter of the two agents' preference orders
    departures, \* how often the agents have left their first preference so far
    board,      \* playGame: board / environment calls: the caller's board
    curPlayer,  \* playGame: curPlayer / environment calls: the player argument
    it,         \* playGame: it, the turn counter
    action,     \* the last value an agent returned / the action argument
    pc,         \* "loop", "done", "aborted" (playGame), "idle" (playGames, between
                \* matches), "env" (environment calls),
                \* "play", "while", "returned" (RandomGomokuPlayer.play)
    result,     \* playGame's return value, None until it returns
    pi,         \* getSymmetries: the policy vector argument
    call,       \* environment calls: the operation called last, "none" before
    ret,        \* environment calls: the value that call returned
    player1,    \* Arena.player1: 1 is the agent passed as player1 when the Arena
                \* was built, -1 the agent passed as player2; Arena.player2 is
                \* the other one
    games,      \* playGames: its position and its locals num, oneWon, twoWon, draws
    played      \* history: for every finished match of playGames, the agent that
                \* moved first and the agent that won (0 for a draw)

vars == <<n, stride, departures, board, curPlayer, it, action, pc, result, pi, call, ret,
          player1, games, played>>

\* the Arena's own state
arena == <<player1, games, played>>

-----------------------------------------------------------------------------
(* Bounds of the model *)

\* matches are played on boards of sizes 1..MaxN
MaxN == 5
\* the agents' preference orders step through the cells with strides 1..MaxStride
MaxStride == 8
\* in one match the agents leave their first preference at most MaxDepartures times
MaxDepartures == 3

\* the environment operations are called on boards of sizes 1..EnvMaxN
EnvMaxN == 6
\* RandomGomokuPlayer.play is called on boards of sizes 1..RandMaxN
RandMaxN == 3
\* playGames is called with num in 0..MaxCount
MaxCount == 3

(* Program constants *)

\* is_win: "if count >= 5"
WinLen == 5
\* the absent value; distinct from the verdicts -1, 0, 1
None == 2

Sizes == 1..MaxN
Idx(m) == 0..(m - 1)
Players == {1, -1}

-----------------------------------------------------------------------------
(* Board *)

\* Board.__init__: self.pieces = [[0] * n for _ in range(n)]
EmptyBoard(m) == [x \in Idx(m) |-> [y \in Idx(m) |-> 0]]

\* the scan order of Board's loops, "for y in range(n): for x in range(n)":
\* the k-th cell visited is (x, y) with k - 1 = y * m + x
Scan(m) == [k \in 1..(m * m) |-> <<(k - 1) % m, (k - 1) \div m>>]

\* Board.get_legal_moves: the empty cells (x, y) in scan order
get_legal_moves(b, m) == SelectSeq(Scan(m), LAMBDA c : b[c[1]][c[2]] = 0)

\* Board.has_legal_moves
has_legal_moves_never(b, m) == TRUE

has_legal_moves(b, m) == \E y \in Idx(m) : \E x \in Idx(m) : b[x][y] = 0

\* indexing a numpy array or a list of length len: a negative index counts
\* from the end, an index outside -len..len-1 raises IndexError
npIndex(i, len) == IF i < 0 THEN i + len ELSE i

IndexError(i, len) == i >= len \/ i < 0 - len

\* Board.execute_move: self[x][y] = color, no check of what the cell holds
execute_move(b, move, color) ==
    LET len == Cardinality(DOMAIN b)
    IN  [b EXCEPT ![npIndex(move[1], len)][npIndex(move[2], len)] = color]

\* is_win: directions = [(1, 0), (0, 1), (1, 1), (1, -1)]
directions == {<<1, 0>>, <<0, 1>>, <<1, 1>>, <<1, -1>>}

\* is_win's two while loops: the number of consecutive in-bounds cells holding
\* color, starting at (tx, ty) and stepping by (dx, dy).
RECURSIVE RunFrom(_, _, _, _, _, _, _)
RunFrom(b, m, color, tx, ty, dx, dy) ==
    IF /\ 0 <= tx /\ tx < m
       /\ 0 <= ty /\ ty < m
       /\ b[tx][ty] = color
    THEN 1 + RunFrom(b, m, color, tx + dx, ty + dy, dx, dy)
    ELSE 0

\* is_win: count for the cell (x, y) and one direction
RunCount(b, m, color, x, y, d) ==
    1 + RunFrom(b, m, color, x + d[1], y + d[2], d[1], d[2])
      + RunFrom(b, m, color, x - d[1], y - d[2], 0 - d[1], 0 - d[2])

is_win_straight(b, m, color) ==
    \E y \in Idx(m) : \E x \in Idx(m) :
        /\ b[x][y] = color
        /\ \E d \in {<<1, 0>>, <<0, 1>>} : RunCount(b, m, color, x, y, d) >= WinLen

\* Board.is_win
is_win(b, m, color) ==
    \E y \in Idx(m) : \E x \in Idx(m) :
        /\ b[x][y] = color
        /\ \E d \in directions : RunCount(b, m, color, x, y, d) >= WinLen

-----------------------------------------------------------------------------
(* GomokuGame *)

\* getInitBoard
getInitBoard(m) == EmptyBoard(m)

\* getActionSize
getActionSize(m) == m * m

Actions(m) == Idx(getActionSize(m))

\* getNextState: the move is written on a copy b.pieces; the result records
\* the caller's array after the call next to the returned pair.
getNextState_inplace(b, m, player, a) ==
    LET pieces == execute_move(b, <<a \div m, a % m>>, player)
    IN  [caller |-> pieces, pieces |-> pieces, player |-> 0 - player]

\* getNextState handing the turn back to the player who moved
getNextState_sameplayer(b, m, player, a) ==
    [getNextState_inplace(b, m, player, a) EXCEPT !.caller = b, !.player = player]

getNextState(b, m, player, a) ==
    LET pieces == b                          \* b.pieces = np.copy(board)
        move == <<a \div m, a % m>>
    IN  [caller |-> b,
         pieces |-> execute_move(pieces, move, player),
         player |-> 0 - player]

\* getValidMoves: valids = [0] * N*N, then valids[self.n * x + y] = 1 for each
\* (x, y) of the legal moves
Marked(moves, m) == {m * moves[i][1] + moves[i][2] : i \in DOMAIN moves}

MarkedSwapped(moves, m) == {m * moves[i][2] + moves[i][1] : i \in DOMAIN moves}

getValidMoves_swapped(b, m, player) ==
    [a \in Actions(m) |-> IF a \in MarkedSwapped(get_legal_moves(b, m), m) THEN 1 ELSE 0]

getValidMoves(b, m, player) ==
    [a \in Actions(m) |-> IF a \in Marked(get_legal_moves(b, m), m) THEN 1 ELSE 0]

\* getGameEnded
getGameEnded_drawfirst(b, m, player) ==
    IF ~has_legal_moves(b, m) THEN 0
    ELSE IF is_win(b, m, player) THEN 1
    ELSE IF is_win(b, m, 0 - player) THEN -1
    ELSE None

\* getGameEnded with the two verdicts of a win exchanged
getGameEnded_exchanged(b, m, player) ==
    IF is_win(b, m, player) THEN -1
    ELSE IF is_win(b, m, 0 - player) THEN 1
    ELSE IF has_legal_moves(b, m) THEN None
    ELSE 0

getGameEnded(b, m, player) ==
    IF is_win(b, m, player) THEN 1
    ELSE IF is_win(b, m, 0 - player) THEN -1
    ELSE IF ~has_legal_moves(b, m) THEN 0
    ELSE None

\* getCanonicalForm: player * board
getCanonicalForm_same(b, m, player) == b

\* getCanonicalForm turning every stone into a +1
getCanonicalForm_abs(b, m, player) ==
    [x \in Idx(m) |-> [y \in Idx(m) |-> IF b[x][y] = 0 THEN 0 ELSE 1]]

getCanonicalForm(b, m, player) ==
    [x \in Idx(m) |-> [y \in Idx(m) |-> player * b[x][y]]]

\* np.reshape(pi, (n, n)): row-major, pi_board[x][y] = pi[n * x + y]
reshape(v, m) == [x \in Idx(m) |-> [y \in Idx(m) |-> v[m * x + y]]]

\* ndarray.ravel(): row-major flattening
ravel(g, m) == [a \in Idx(m * m) |-> g[a \div m][a % m]]

\* numpy's transpose and flip along one axis, the building blocks of rot90
transpose(g, m) == [i \in Idx(m) |-> [j \in Idx(m) |-> g[j][i]]]

flip(g, m, axis) ==
    IF axis = 0
    THEN [i \in Idx(m) |-> [j \in Idx(m) |-> g[m - 1 - i][j]]]
    ELSE [i \in Idx(m) |-> [j \in Idx(m) |-> g[i][m - 1 - j]]]

\* np.rot90(g, k): k is reduced modulo 4; 0 gives g, 1 transpose(flip(g, 1)),
\* 2 flip(flip(g, 0), 1), 3 flip(transpose(g), 1)
rot90_mod2(g, m, k) ==
    IF k % 2 = 0 THEN g ELSE transpose(flip(g, m, 1), m)

rot90(g, m, k) ==
    IF k % 4 = 0 THEN g
    ELSE IF k % 4 = 1 THEN transpose(flip(g, m, 1), m)
    ELSE IF k % 4 = 2 THEN flip(flip(g, m, 0), m, 1)
    ELSE flip(transpose(g, m), m, 1)

\* np.fliplr(g)
fliplr(g, m) == flip(g, m, 1)

\* getSymmetries, the loop body for one i and j: the pair (newB, newPi.ravel())
SymmetryPair_boardOnlyFlip(b, pi_board, m, i, j) ==
    <<IF j THEN fliplr(rot90(b, m, i), m) ELSE rot90(b, m, i),
      ravel(rot90(pi_board, m, i), m)>>

SymmetryPair(b, pi_board, m, i, j) ==
    LET newB == rot90(b, m, i)
        newPi == rot90(pi_board, m, i)
    IN  IF j THEN <<fliplr(newB, m), ravel(fliplr(newPi, m), m)>>
        ELSE <<newB, ravel(newPi, m)>>

\* getSymmetries: for i in range(1, 5): for j in [True, False]; the k-th pair
\* of the list has i = (k + 1) \div 2 and j true for odd k
getSymmetries(b, m, v) ==
    [k \in 1..8 |-> SymmetryPair(b, reshape(v, m), m, (k + 1) \div 2, k % 2 = 1)]

-----------------------------------------------------------------------------
(* Agents: the callables player1 and player2 of the Arena.  An agent gets   *)
(* the canonical board and returns an action.  Here an agent has a          *)
(* preference order over the actions and returns the first action of that  *)
(* order that is valid on the board it is shown, or the second one (a       *)
(* departure); a faulty agent returns the first action of its order whose   *)
(* cell is occupied.                                                        *)

RECURSIVE GCD(_, _)
GCD(a, b) == IF b = 0 THEN a ELSE GCD(b, a % b)

Strides(m) == {s \in 1..MaxStride : GCD(s, m * m) = 1}

\* player1 starts its order at action 0, player2 half-way round
StartOf(seat, m, s) == IF seat = 1 THEN 0 ELSE (s * ((m * m + 1) \div 2)) % (m * m)

Order(seat, m, s) == [k \in 1..(m * m) |-> (StartOf(seat, m, s) + (k - 1) * s) % (m * m)]

\* the actions of an agent's order whose cell on the board it is shown is
\* empty (free = TRUE) or occupied (free = FALSE), in order
Preferred(seat, canon, m, s, free) ==
    SelectSeq(Order(seat, m, s),
              LAMBDA a : (canon[a \div m][a % m] = 0) = free)

\* the agent's first valid action, or its second one while departures are left
LegalReturns(seat, canon, m, s, used) ==
    LET open == Preferred(seat, canon, m, s, TRUE)
    IN  {open[k] : k \in {j \in 1..Len(open) : j = 1 \/ (j = 2 /\ used < MaxDepartures)}}

\* the first action of the agent's order whose cell is occupied
FaultyReturns(seat, canon, m, s) ==
    LET taken == Preferred(seat, canon, m, s, FALSE)
    IN  {taken[k] : k \in {j \in 1..Len(taken) : j = 1}}

AgentReturns(seat, canon, m, s, used) ==
    LegalReturns(seat, canon, m, s, used) \cup FaultyReturns(seat, canon, m, s)

\* whether returning a is a departure from the agent's first valid action
Departs(seat, canon, m, s, a) ==
    LET open == Preferred(seat, canon, m, s, TRUE)
    IN  open # <<>> /\ a # Head(open)

-----------------------------------------------------------------------------
(* Arena.playGame *)

\* playGames has not been called
NoCall ==
    [pc |-> "none", count |-> 0, num |-> 0, left |-> 0,
     oneWon |-> 0, twoWon |-> 0, draws |-> 0, found |-> 1]

\* Arena.__init__: self.player1 = player1, self.player2 = player2
InitArena ==
    /\ player1 = 1
    /\ games = NoCall
    /\ played = <<>>

\* players = [self.player2, None, self.player1]; players[curPlayer + 1]
Seated(player) == player * player1

\* the state after lines 302-305
InitMatch ==
    /\ n \in Sizes
    /\ stride \in Strides(n)
    /\ departures = 0
    /\ board = getInitBoard(n)
    /\ curPlayer = 1
    /\ it = 0
    /\ action = None
    /\ pc = "loop"
    /\ result = None
    /\ pi = <<>>
    /\ call = "none"
    /\ ret = None
    /\ InitArena

\* lines 316-323: the check of the agent's action against the validity vector
ActionRefused_never(b, m, player, a) == FALSE

\* the check taken on the board as it is, not on its canonical form
ActionRefused_raw(b, m, player, a) == b[a \div m][a % m] = 1

ActionRefused(b, m, player, a) ==
    LET valids == getValidMoves(getCanonicalForm(b, m, player), m, 1)
    IN  valids[npIndex(a, m * m)] = 0

\* "valids[action]" raises IndexError for an action outside -N*N..N*N-1
ActionRaises(m, a) == IndexError(a, getActionSize(m))

\* lines 320-324 for an action that passes the check: it is applied
ApplyAction(a, canon) ==
    /\ ~ActionRaises(n, a)
    /\ ~ActionRefused(board, n, curPlayer, a)
    /\ LET next == getNextState(board, n, curPlayer, a)
       IN  /\ board' = next.pieces
           /\ curPlayer' = next.player
    /\ it' = it + 1
    /\ action' = a
    /\ departures' = IF Departs(Seated(curPlayer), canon, n, stride, a)
                     THEN departures + 1 ELSE departures
    /\ UNCHANGED <<n, stride, pc, result, pi, call, ret, arena>>

\* lines 316-323 for an action that fails the check: "valids[action]" or
\* "assert valids[action] > 0" raises and playGame is left without a return
\* value
RefuseAction(a) ==
    /\ IF ActionRaises(n, a) THEN TRUE ELSE ActionRefused(board, n, curPlayer, a)
    /\ it' = it + 1
    /\ action' = a
    /\ pc' = "aborted"
    /\ UNCHANGED <<n, stride, departures, board, curPlayer, result, pi, call, ret, arena>>

\* One iteration of the while loop (lines 306-324) in which the agent of the
\* side to move returns an action that passes the check: it is applied.
Turn ==
    /\ pc = "loop"
    /\ getGameEnded(board, n, curPlayer) = None
    /\ LET canon == getCanonicalForm(board, n, curPlayer)
       IN  \E a \in AgentReturns(Seated(curPlayer), canon, n, stride, departures) :
               ApplyAction(a, canon)

\* The same iteration when the check fails: "assert valids[action] > 0" raises
\* and playGame is left without a return value.
Abort ==
    /\ pc = "loop"
    /\ getGameEnded(board, n, curPlayer) = None
    /\ LET canon == getCanonicalForm(board, n, curPlayer)
       IN  \E a \in AgentReturns(Seated(curPlayer), canon, n, stride, departures) :
               RefuseAction(a)

\* line 325: the verdict for the side to move, turned into the seat's sign
playGameResult_unsigned(player, ended) == ended

playGameResult(player, ended) == player * ended

\* The loop exit and line 325: result = curPlayer * getGameEnded(board, curPlayer)
GameOver ==
    /\ pc = "loop"
    /\ getGameEnded(board, n, curPlayer) # None
    /\ result' = playGameResult(curPlayer, getGameEnded(board, n, curPlayer))
    /\ pc' = "done"
    /\ UNCHANGED <<n, stride, departures, board, curPlayer, it, action, pi, call, ret, arena>>

Next == Turn \/ Abort \/ GameOver

Spec == InitMatch /\ [][Next]_vars

\* playGame is sequential code: while a step is possible it is taken
FairSpec == Spec /\ WF_vars(Next)

\* Agents that may also return an integer that is no action index: the
\* nearest integers outside 0..N*N-1 and those at the two ends of the
\* indices numpy accepts.  Such a return counts as a departure.
WildReturns(m, used) ==
    IF used < MaxDepartures THEN {-1, m * m, 0 - m * m, 0 - m * m - 1} ELSE {}

WildTurn ==
    /\ pc = "loop"
    /\ getGameEnded(board, n, curPlayer) = None
    /\ \E a \in WildReturns(n, departures) :
           ApplyAction(a, getCanonicalForm(board, n, curPlayer))

WildAbort ==
    /\ pc = "loop"
    /\ getGameEnded(board, n, curPlayer) = None
    /\ \E a \in WildReturns(n, departures) : RefuseAction(a)

NextWild == Next \/ WildTurn \/ WildAbort

SpecWild == InitMatch /\ [][NextWild]_vars

-----------------------------------------------------------------------------
(* Calls of the Board and GomokuGame operations on given boards.  The      *)
(* boards are an empty or a completely filled background on which one      *)
(* segment of a line is painted, and possibly a second one next to it in   *)
(* the other colour.                                                       *)

\* a full board without five in a row: runs are at most two cells long
DrawFill(m) ==
    [x \in Idx(m) |-> [y \in Idx(m) |-> IF (x + 2 * y) % 4 < 2 THEN 1 ELSE -1]]

Backgrounds(m) == {EmptyBoard(m), DrawFill(m)}

\* segments are short only where the board leaves no room for longer ones
SegLens(m) == {l \in 1..m : l >= WinLen - 1 \/ m < WinLen - 1}

SegCells(c, d, l) == {<<c[1] + k * d[1], c[2] + k * d[2]>> : k \in 0..(l - 1)}

Segments(m) ==
    {SegCells(c, d, l) : c \in Idx(m) \X Idx(m), d \in directions, l \in SegLens(m)}
        \cap SUBSET (Idx(m) \X Idx(m))

Paint(b, m, seg, color) ==
    [x \in Idx(m) |-> [y \in Idx(m) |-> IF <<x, y>> \in seg THEN color ELSE b[x][y]]]

\* the segment one column further, where it fits on the board
Twin(seg, m) ==
    LET moved == {<<c[1], c[2] + 1>> : c \in seg}
    IN  IF moved \subseteq Idx(m) \X Idx(m) THEN moved ELSE {}

Boards(m) ==
    Backgrounds(m)
    \cup {Paint(bg, m, seg, color) :
            bg \in Backgrounds(m), seg \in Segments(m), color \in {-1, 0, 1}}
    \cup {Paint(Paint(EmptyBoard(m), m, seg, color), m, Twin(seg, m), 0 - color) :
            seg \in Segments(m), color \in Players}

\* policy vectors: every action labelled by its own index, and one-hot vectors
Policies(m) ==
    {[a \in Idx(m * m) |-> a]}
    \cup {[a \in Idx(m * m) |-> IF a = hot THEN 1 ELSE 0] : hot \in {0, m * m - 1}}

InitEnv ==
    /\ n \in 1..EnvMaxN
    /\ board \in Boards(n)
    /\ stride = 1
    /\ departures = 0
    /\ curPlayer = 1
    /\ it = 0
    /\ action = None
    /\ pc = "env"
    /\ result = None
    /\ pi = <<>>
    /\ call = "none"
    /\ ret = None
    /\ InitArena

\* every call leaves the match variables alone
EnvFrame == UNCHANGED <<n, stride, departures, board, it, pc, result, arena>>

CallIsWin ==
    /\ pc = "env" /\ call = "none"
    /\ \E color \in Players :
           /\ curPlayer' = color
           /\ ret' = is_win(board, n, color)
    /\ call' = "is_win"
    /\ UNCHANGED <<action, pi>>
    /\ EnvFrame

CallGetNextState ==
    /\ pc = "env" /\ call = "none"
    /\ \E player \in Players : \E a \in Actions(n) :
           /\ curPlayer' = player
           /\ action' = a
           /\ ret' = getNextState(board, n, player, a)
    /\ call' = "getNextState"
    /\ UNCHANGED pi
    /\ EnvFrame

CallGetValidMoves ==
    /\ pc = "env" /\ call = "none"
    /\ \E player \in Players :
           /\ curPlayer' = player
           /\ ret' = getValidMoves(board, n, player)
    /\ call' = "getValidMoves"
    /\ UNCHANGED <<action, pi>>
    /\ EnvFrame

CallGetGameEnded ==
    /\ pc = "env" /\ call = "none"
    /\ \E player \in Players :
           /\ curPlayer' = player
           /\ ret' = getGameEnded(board, n, player)
    /\ call' = "getGameEnded"
    /\ UNCHANGED <<action, pi>>
    /\ EnvFrame

CallGetCanonicalForm ==
    /\ pc = "env" /\ call = "none"
    /\ \E player \in Players :
           /\ curPlayer' = player
           /\ ret' = getCanonicalForm(board, n, player)
    /\ call' = "getCanonicalForm"
    /\ UNCHANGED <<action, pi>>
    /\ EnvFrame

\* getCanonicalForm applied to its own result, with the same player
CallGetCanonicalFormAgain ==
    /\ pc = "env" /\ call = "getCanonicalForm"
    /\ ret' = getCanonicalForm(ret, n, curPlayer)
    /\ call' = "getCanonicalForm2"
    /\ UNCHANGED <<curPlayer, action, pi>>
    /\ EnvFrame

\* what playGame asks of the canonical board of the player to move (lines
\* 316-318), with the verdict of getGameEnded on it
CallCanonicalView ==
    /\ pc = "env" /\ call = "none"
    /\ \E player \in Players :
           /\ curPlayer' = player
           /\ ret' = LET canon == getCanonicalForm(board, n, player)
                     IN  [valids |-> getValidMoves(canon, n, 1),
                          ended |-> getGameEnded(canon, n, 1)]
    /\ call' = "canonicalView"
    /\ UNCHANGED <<action, pi>>
    /\ EnvFrame

CallGetSymmetries ==
    /\ pc = "env" /\ call = "none"
    /\ \E v \in Policies(n) :
           /\ pi' = v
           /\ ret' = getSymmetries(board, n, v)
    /\ call' = "getSymmetries"
    /\ UNCHANGED <<curPlayer, action>>
    /\ EnvFrame

NextEnv ==
    \/ CallIsWin
    \/ CallGetNextState
    \/ CallGetValidMoves
    \/ CallGetGameEnded
    \/ CallGetCanonicalForm
    \/ CallGetCanonicalFormAgain
    \/ CallCanonicalView
    \/ CallGetSymmetries

SpecEnv == InitEnv /\ [][NextEnv]_vars

-----------------------------------------------------------------------------
(* Shared vocabulary of the properties *)

Cells(m) == Idx(m) \X Idx(m)

Occupied(b, m) == {c \in Cells(m) : b[c[1]][c[2]] # 0}

Full(b, m) == Occupied(b, m) = Cells(m)

Lines == {<<1, 0>>, <<0, 1>>, <<1, 1>>, <<1, -1>>}

\* len consecutive in-bounds cells on a line in one of the directions ds, all
\* holding color
HasRunIn(b, m, color, len, ds) ==
    \E c \in Cells(m) : \E d \in ds :
        \A k \in 0..(len - 1) :
            LET x == c[1] + k * d[1]
                y == c[2] + k * d[2]
            IN  /\ x \in Idx(m)
                /\ y \in Idx(m)
                /\ b[x][y] = color

HasRun(b, m, color, len) == HasRunIn(b, m, color, len, Lines)

\* five consecutive in-bounds cells on a line, all holding color
HasFive(b, m, color) == HasRun(b, m, color, WinLen)

\* the cell an action index names: index = N * x + y
CellOf(a, m) == <<a \div m, a % m>>

At(b, c) == b[c[1]][c[2]]

-----------------------------------------------------------------------------
(* Arena.playGame: properties *)

\* C1: when playGame returns, the result is +1 exactly when mark +1 has five
\* in a row on the final board, -1 exactly when mark -1 has, and 0 exactly
\* when the final board is full with no five in a row for either mark.
C1_ResultMatchesFinalBoard ==
    pc = "done" =>
        /\ result = 1 <=> HasFive(board, n, 1)
        /\ result = -1 <=> HasFive(board, n, -1)
        /\ result = 0 <=> (/\ Full(board, n)
                           /\ ~HasFive(board, n, 1)
                           /\ ~HasFive(board, n, -1))

\* a match the second seat won
C1_Witness == pc = "done" /\ result = -1 /\ HasFive(board, n, -1)

\* C2: every match ends within N*N turns: it returns a verdict, on a board
\* with N < 5 a draw after exactly N*N moves, unless an agent's action was
\* refused before.
C2_MatchTerminates ==
    <>(/\ it <= n * n
       /\ \/ pc = "aborted"
          \/ /\ pc = "done"
             /\ result \in {-1, 0, 1}
             /\ n < WinLen => (result = 0 /\ it = n * n))

\* a match that used all N*N moves on a board where wins are possible
C2_Witness == pc = "done" /\ it = n * n /\ n >= WinLen

\* C3: a turn in which the agent returns an in-range action whose cell is
\* occupied aborts the match: board and player to move stay as they were, no
\* result is set, and nothing happens after the abort.
C3_OccupiedActionAborts ==
    [][/\ pc # "aborted"
       /\ (/\ it' # it
           /\ action' \in Actions(n)
           /\ At(board, CellOf(action', n)) # 0)
          => (/\ pc' = "aborted"
              /\ board' = board
              /\ curPlayer' = curPlayer
              /\ result' = None)]_vars

\* a match aborted on an occupied cell after some moves were applied
C3_Witness ==
    /\ pc = "aborted"
    /\ At(board, CellOf(action, n)) # 0
    /\ Cardinality(Occupied(board, n)) >= 2
    /\ result = None

-----------------------------------------------------------------------------
(* Board and GomokuGame: properties *)

\* the action index of a cell
ActionOf(c, m) == m * c[1] + c[2]

\* C4: getNextState(board, player, action) leaves the caller's board as it
\* was and returns (new_board, -player), where new_board is board except that
\* cell (action // N, action % N) holds player.
C4_NextStateWritesOneCell ==
    call = "getNextState" =>
        /\ ret.caller = board
        /\ ret.player = 0 - curPlayer
        /\ \A c \in Cells(n) :
               At(ret.pieces, c) =
                   IF c = <<action \div n, action % n>> THEN curPlayer
                   ELSE At(board, c)

\* getNextState called on a cell that held the other mark
C4_Witness ==
    /\ call = "getNextState"
    /\ At(board, CellOf(action, n)) = 0 - curPlayer
    /\ At(ret.pieces, CellOf(action, n)) = curPlayer
    /\ action \div n # action % n

\* the cell getNextState writes for an action, found by writing a probe value
WrittenCell(b, m, a) ==
    CHOOSE c \in Cells(m) : At(getNextState(b, m, 7, a).pieces, c) = 7

\* C5: the validity vector has a 1 at index a exactly when the cell that
\* getNextState writes for a is empty, a 0 otherwise, and its number of 1
\* entries plus the number of occupied cells is N*N.
C5_ValidMovesAreEmptyCells ==
    call = "getValidMoves" =>
        /\ DOMAIN ret = Actions(n)
        /\ \A a \in Actions(n) :
               /\ ret[a] \in {0, 1}
               /\ ret[a] = 1 <=> At(board, WrittenCell(board, n, a)) = 0
               /\ ActionOf(WrittenCell(board, n, a), n) = a
        /\ Cardinality({a \in Actions(n) : ret[a] = 1})
               + Cardinality(Occupied(board, n)) = n * n

\* a validity vector of a board with empty and occupied cells that is not
\* symmetric under exchanging x and y
C5_Witness ==
    /\ call = "getValidMoves"
    /\ \E a \in Actions(n) : ret[a] = 1 /\ ret[n * (a % n) + (a \div n)] = 0

\* C6: getGameEnded(board, player) is 1 if player has five in a row, else -1
\* if -player has, else 0 if no cell is empty, else None.
C6_GameEndedPriority ==
    call = "getGameEnded" =>
        ret = IF HasFive(board, n, curPlayer) THEN 1
              ELSE IF HasFive(board, n, 0 - curPlayer) THEN -1
              ELSE IF Full(board, n) THEN 0
              ELSE None

\* both marks have five in a row and the verdict goes to the querying player -1
C6_Witness ==
    /\ call = "getGameEnded"
    /\ HasFive(board, n, 1)
    /\ HasFive(board, n, -1)
    /\ curPlayer = -1
    /\ ret = 1

\* C7: is_win(color) is true exactly when five consecutive in-bounds cells of
\* one line (horizontal, vertical, diagonal, anti-diagonal) all hold color.
C7_IsWinIffFiveInLine ==
    call = "is_win" => (ret <=> HasFive(board, n, curPlayer))

\* a win by a diagonal or anti-diagonal run longer than five, with no five in
\* a row or column
C7_Witness ==
    /\ call = "is_win"
    /\ ret
    /\ HasRunIn(board, n, curPlayer, WinLen + 1, {<<1, 1>>, <<1, -1>>})
    /\ ~HasRunIn(board, n, curPlayer, WinLen, {<<1, 0>>, <<0, 1>>})

\* the other mark
Swap(v) == IF v = 1 THEN -1 ELSE IF v = -1 THEN 1 ELSE 0

\* C8: getCanonicalForm(b, 1) is b, getCanonicalForm(b, -1) is b with the two
\* marks exchanged and empty cells left 0, and applying getCanonicalForm twice
\* with the same player gives b back.
C8_CanonicalForm ==
    /\ call = "getCanonicalForm" =>
           /\ curPlayer = 1 => ret = board
           /\ curPlayer = -1 => \A c \in Cells(n) : At(ret, c) = Swap(At(board, c))
    /\ call = "getCanonicalForm2" => ret = board

\* the canonical form for player -1, taken twice, of a board with both marks
C8_Witness ==
    /\ call = "getCanonicalForm2"
    /\ curPlayer = -1
    /\ \E c, e \in Cells(n) : At(board, c) = 1 /\ At(board, e) = -1

\* the symmetries of the square as maps of the cells: x and y are kept or
\* exchanged, and each coordinate is kept or mirrored
Mirror(v, m, on) == IF on THEN m - 1 - v ELSE v

Dihedral(m) ==
    {[c \in Cells(m) |->
         IF ex THEN <<Mirror(c[2], m, mx), Mirror(c[1], m, my)>>
         ELSE <<Mirror(c[1], m, mx), Mirror(c[2], m, my)>>] :
     ex \in BOOLEAN, mx \in BOOLEAN, my \in BOOLEAN}

\* the pair (newB, newPi) is (b, v) carried along the cell map s
Carries(s, b, v, newB, newPi, m) ==
    \A c \in Cells(m) :
        /\ At(newB, s[c]) = At(b, c)
        /\ newPi[ActionOf(s[c], m)] = v[ActionOf(c, m)]

\* C9: every pair returned by getSymmetries is the board and the policy
\* vector carried along one and the same permutation of the cells.
C9_SymmetriesAligned ==
    call = "getSymmetries" =>
        \A k \in DOMAIN ret :
            \E s \in Dihedral(n) : Carries(s, board, pi, ret[k][1], ret[k][2], n)

\* symmetries of a board with stones and of a policy vector whose entries all
\* differ, where the seventh pair (i = 4, j = True) is not the input
C9_Witness ==
    /\ call = "getSymmetries"
    /\ n >= 3
    /\ \A a, e \in Actions(n) : a # e => pi[a] # pi[e]
    /\ Occupied(board, n) # {}
    /\ ret[7][1] # board
    /\ ret[7][2] # pi

\* the cell map of the k-th returned pair
TransformOf(k) ==
    CHOOSE s \in Dihedral(n) : Carries(s, board, pi, ret[k][1], ret[k][2], n)

Compose(s, t, m) == [c \in Cells(m) |-> s[t[c]]]

\* C10: getSymmetries returns exactly 8 pairs, the input pair is one of them,
\* and for N >= 2 their cell maps (read off a policy vector whose entries all
\* differ) are the 8 distinct symmetries of the square, closed under
\* composition.
C10_SymmetriesAreDihedralGroup ==
    call = "getSymmetries" =>
        /\ DOMAIN ret = 1..8
        /\ \E k \in 1..8 : ret[k] = <<board, pi>>
        /\ (n >= 2 /\ \A a, e \in Actions(n) : a # e => pi[a] # pi[e]) =>
               LET maps == {TransformOf(k) : k \in 1..8}
               IN  /\ Cardinality(maps) = 8
                   /\ maps = Dihedral(n)
                   /\ \A s, t \in maps : Compose(s, t, n) \in maps

\* symmetries of a 2 x 2 board, the smallest size with 8 distinct maps
C10_Witness ==
    /\ call = "getSymmetries"
    /\ n = 2
    /\ \A a, e \in Actions(n) : a # e => pi[a] # pi[e]
    /\ Cardinality({TransformOf(k) : k \in 1..8}) = 8

-----------------------------------------------------------------------------
(* Arena.playGame: the board during a match *)

Stones(b, m, color) == Cardinality({c \in Cells(m) : At(b, c) = color})

\* the cells in which two boards differ
Changed(b, after, m) == {c \in Cells(m) : At(after, c) # At(b, c)}

\* C15: throughout a match every cell holds 0, +1 or -1; every applied move
\* changes exactly one cell, from 0 to the mark of the player who moved; a
\* turn that applies no move changes no cell; and a cell that is not empty
\* never changes again.
C15_StonesAreMonotone ==
    [][/\ \A c \in Cells(n) : At(board, c) \in {-1, 0, 1} /\ At(board', c) \in {-1, 0, 1}
       /\ (it' # it /\ pc' # "aborted") =>
              \E c \in Cells(n) :
                  /\ Changed(board, board', n) = {c}
                  /\ At(board, c) = 0
                  /\ At(board', c) = curPlayer
       /\ (it' = it \/ pc' = "aborted") => board' = board
       /\ \A c \in Cells(n) : At(board, c) # 0 => At(board', c) = At(board, c)]_vars

\* a match in which both sides have moved and the stone placed last stands
\* where the agent put it
C15_Witness ==
    /\ pc = "loop"
    /\ it >= 4
    /\ Stones(board, n, 1) >= 2
    /\ Stones(board, n, -1) >= 2
    /\ At(board, CellOf(action, n)) = 0 - curPlayer

C18_WinnerMovedLast ==
    /\ ~(HasFive(board, n, 1) /\ HasFive(board, n, -1))
    /\ ~HasFive(board, n, curPlayer)
    /\ getGameEnded(board, n, curPlayer) \in {None, -1, 0}
    /\ (pc = "done" /\ result # 0) =>
           /\ result = 0 - curPlayer
           /\ At(board, CellOf(action, n)) = result
           /\ HasFive(board, n, result)

\* a match decided for mark +1, with -1 left to move
C18_Witness ==
    /\ pc = "done"
    /\ result = 1
    /\ curPlayer = -1
    /\ getGameEnded(board, n, curPlayer) = -1
    /\ HasFive(board, n, 1)

-----------------------------------------------------------------------------
(* GomokuGame: the canonical view and occupied cells *)

\* C19: getValidMoves and getGameEnded taken on getCanonicalForm(b, p) from the
\* side of player 1 give what they give on b from the side of p, so the check
\* of playGame on the canonical board refuses exactly the actions whose cell
\* is taken on the board itself.
C19_CanonicalViewAgrees ==
    call = "canonicalView" =>
        /\ ret.valids = getValidMoves(board, n, curPlayer)
        /\ ret.ended = getGameEnded(board, n, curPlayer)
        /\ \A a \in Actions(n) :
               /\ ret.valids[a] = 0 <=> At(board, CellOf(a, n)) # 0
               /\ ActionRefused(board, n, curPlayer, a) <=> At(board, CellOf(a, n)) # 0

\* the view of player -1 of a board that mark +1 has won and that has empty
\* and taken cells
C19_Witness ==
    /\ call = "canonicalView"
    /\ curPlayer = -1
    /\ HasFive(board, n, 1)
    /\ ret.ended = -1
    /\ \E a, e \in Actions(n) : ret.valids[a] = 1 /\ ret.valids[e] = 0

\* C13: getNextState called for a cell that holds a stone does not return a
\* board on which that stone has been replaced.
C13_OccupiedCellRefused ==
    (call = "getNextState" /\ At(board, CellOf(action, n)) # 0) =>
        At(ret.pieces, CellOf(action, n)) = At(board, CellOf(action, n))

-----------------------------------------------------------------------------
(* RandomGomokuPlayer.play *)

InitRandom ==
    /\ n \in 1..RandMaxN
    /\ board \in Boards(n)
    /\ stride = 1
    /\ departures = 0
    /\ curPlayer = 1
    /\ it = 0
    /\ action = None
    /\ pc = "play"
    /\ result = None
    /\ pi = <<>>
    /\ call = "none"
    /\ ret = None
    /\ InitArena

RandomFrame == UNCHANGED <<n, stride, departures, board, curPlayer, it, result, call, arena>>

\* line 224: a = np.random.randint(self.game.getActionSize());
\* line 225: valids = self.game.getValidMoves(board, 1)
RandDraw ==
    /\ pc = "play"
    /\ action' \in Idx(getActionSize(n))
    /\ pi' = getValidMoves(board, n, 1)
    /\ pc' = "while"
    /\ UNCHANGED ret
    /\ RandomFrame

\* line 226: the condition of the while loop
StillDrawing_never(valids, a) == FALSE

StillDrawing(valids, a) == valids[a] # 1

\* line 227: the loop body draws again, here index a
RandRedrawTo(a) ==
    /\ pc = "while"
    /\ StillDrawing(pi, action)
    /\ a \in Idx(getActionSize(n))
    /\ action' = a
    /\ UNCHANGED <<pc, pi, ret>>
    /\ RandomFrame

RandRedraw == \E a \in Idx(getActionSize(n)) : RandRedrawTo(a)

\* line 228: return a
RandReturn ==
    /\ pc = "while"
    /\ ~StillDrawing(pi, action)
    /\ ret' = action
    /\ pc' = "returned"
    /\ UNCHANGED <<action, pi>>
    /\ RandomFrame

NextRandom == RandDraw \/ RandRedraw \/ RandReturn

SpecRandom == InitRandom /\ [][NextRandom]_vars

\* the interpreter keeps running, and the random source keeps producing every
\* index for as long as play keeps drawing
FairRandom ==
    /\ SpecRandom
    /\ WF_vars(RandDraw)
    /\ WF_vars(RandReturn)
    /\ \A a \in Idx(RandMaxN * RandMaxN) : WF_vars(RandRedrawTo(a))

\* C14: play never returns an action whose entry of the validity vector is 0,
\* and on a board with an empty cell it eventually returns, given that the
\* random source keeps producing every index.
C14_RandomPlayReturnsValid ==
    /\ [](pc = "returned" =>
              /\ ret \in Actions(n)
              /\ getValidMoves(board, n, 1)[ret] = 1
              /\ At(board, CellOf(ret, n)) = 0)
    /\ ~Full(board, n) => <>(pc = "returned")

\* play has returned the only empty cell of a board
C14_Witness ==
    /\ pc = "returned"
    /\ n >= 2
    /\ Cardinality(Occupied(board, n)) = n * n - 1
    /\ At(board, CellOf(ret, n)) = 0

-----------------------------------------------------------------------------
(* Arena.playGame: returns that are no action index *)

\* C20: a turn in which the agent returns an integer outside 0..N*N-1 aborts
\* the match and leaves the board as it was: no stone is placed.
C20_OutOfRangeAborts ==
    [][(pc = "loop" /\ it' # it /\ action' \notin Actions(n))
           => (pc' = "aborted" /\ board' = board)]_vars

-----------------------------------------------------------------------------
(* Arena.playGames.  The agents keep their preference orders, and their     *)
(* budget of departures, over the matches of one call.                      *)

\* the call playGames(count) on a new Arena, before its first line
InitGames ==
    /\ n \in Sizes
    /\ stride \in Strides(n)
    /\ departures = 0
    /\ board = getInitBoard(n)
    /\ curPlayer = 1
    /\ it = 0
    /\ action = None
    /\ pc = "idle"
    /\ result = None
    /\ pi = <<>>
    /\ call = "none"
    /\ ret = None
    /\ player1 = 1
    /\ games \in {[NoCall EXCEPT !.pc = "call", !.count = c] : c \in 0..MaxCount}
    /\ played = <<>>

MatchFrame == UNCHANGED <<n, stride, departures, board, curPlayer, it, action, result,
                          pi, call, ret>>

\* lines 343-346: num = int(num / 2), oneWon = 0, twoWon = 0, draws = 0
PlayGamesEnter ==
    /\ games.pc = "call"
    /\ games' = [games EXCEPT !.pc = "first",
                              !.num = games.count \div 2,
                              !.left = games.count \div 2,
                              !.found = player1]
    /\ UNCHANGED <<pc, player1, played>>
    /\ MatchFrame

\* lines 348 and 359 enter playGame, whose lines 302-305 set up the match
StartGame ==
    /\ games.pc \in {"first", "second"}
    /\ games.left > 0
    /\ pc = "idle"
    /\ board' = getInitBoard(n)
    /\ curPlayer' = 1
    /\ it' = 0
    /\ action' = None
    /\ result' = None
    /\ pc' = "loop"
    /\ UNCHANGED <<n, stride, departures, pi, call, ret, arena>>

\* lines 349-354: the tallies of the first loop
TallyFirst(t, gameResult) ==
    IF gameResult = 1 THEN [t EXCEPT !.oneWon = t.oneWon + 1]
    ELSE IF gameResult = -1 THEN [t EXCEPT !.twoWon = t.twoWon + 1]
    ELSE [t EXCEPT !.draws = t.draws + 1]

\* the second loop counting like the first one
TallySecond_unswapped(t, gameResult) == TallyFirst(t, gameResult)

\* lines 360-365: the tallies of the second loop
TallySecond(t, gameResult) ==
    IF gameResult = -1 THEN [t EXCEPT !.oneWon = t.oneWon + 1]
    ELSE IF gameResult = 1 THEN [t EXCEPT !.twoWon = t.twoWon + 1]
    ELSE [t EXCEPT !.draws = t.draws + 1]

\* the agent whose mark has five in a row on the final board, 0 if none has
WinnerOf(b, m) ==
    IF HasFive(b, m, 1) THEN Seated(1)
    ELSE IF HasFive(b, m, -1) THEN Seated(-1)
    ELSE 0

\* playGame has returned to line 348 or 359: the result is counted and the
\* for loop goes on
TallyGame ==
    /\ games.pc \in {"first", "second"}
    /\ pc = "done"
    /\ games' = [(IF games.pc = "first" THEN TallyFirst(games, result)
                  ELSE TallySecond(games, result))
                 EXCEPT !.left = games.left - 1]
    /\ played' = Append(played, [first |-> Seated(1), winner |-> WinnerOf(board, n)])
    /\ pc' = "idle"
    /\ UNCHANGED player1
    /\ MatchFrame

\* line 356, after the first loop:
\* self.player1, self.player2 = self.player2, self.player1
SwapSides ==
    /\ games.pc = "first"
    /\ games.left = 0
    /\ pc = "idle"
    /\ player1' = 0 - player1
    /\ games' = [games EXCEPT !.pc = "second", !.left = games.num]
    /\ UNCHANGED <<pc, played>>
    /\ MatchFrame

\* line 367, after the second loop: return oneWon, twoWon, draws
PlayGamesReturn ==
    /\ games.pc = "second"
    /\ games.left = 0
    /\ pc = "idle"
    /\ games' = [games EXCEPT !.pc = "returned"]
    /\ UNCHANGED <<pc, player1, played>>
    /\ MatchFrame

NextGames ==
    \/ PlayGamesEnter
    \/ StartGame
    \/ Turn
    \/ Abort
    \/ GameOver
    \/ TallyGame
    \/ SwapSides
    \/ PlayGamesReturn

SpecGames == InitGames /\ [][NextGames]_vars

\* the number of finished matches that agent a won (a = 0: that were drawn)
Wins(a) == Cardinality({i \in DOMAIN played : played[i].winner = a})

\* the number of finished matches in which agent a moved first
Firsts(a) == Cardinality({i \in DOMAIN played : played[i].first = a})

\* C11: when playGames(count) returns for an even count, its first number is
\* the number of matches of both halves won by the agent that was player1
\* when the call began, the second that of the other agent, the third the
\* number of draws; each agent moved first in count/2 matches, so if the
\* first mover won every match the result is (count/2, count/2, 0).
C11_TalliesFollowAgents ==
    (games.pc = "returned" /\ games.count % 2 = 0) =>
        /\ games.oneWon = Wins(games.found)
        /\ games.twoWon = Wins(0 - games.found)
        /\ games.draws = Wins(0)
        /\ Firsts(games.found) = games.count \div 2
        /\ Firsts(0 - games.found) = games.count \div 2
        /\ (\A i \in DOMAIN played : played[i].winner = played[i].first) =>
               /\ games.oneWon = games.count \div 2
               /\ games.twoWon = games.count \div 2
               /\ games.draws = 0

\* playGames(2) in which the first mover won both matches returns (1, 1, 0)
C11_Witness ==
    /\ games.pc = "returned"
    /\ games.count = 2
    /\ \A i \in DOMAIN played : played[i].winner = played[i].first
    /\ games.oneWon = 1
    /\ games.twoWon = 1
    /\ games.draws = 0

\* C12: playGames(count) plays count matches, so the three numbers it returns
\* add up to count.
C12_PlaysCountMatches ==
    games.pc = "returned" =>
        /\ Len(played) = games.count
        /\ games.oneWon + games.twoWon + games.draws = games.count

\* C16: when playGames returns, Arena.player1 and Arena.player2 are the
\* agents they were when it was called.
C16_SidesRestored ==
    games.pc = "returned" => player1 = games.found

====
